---- MODULE Spec2Model ----
(***************************************************************************)
(* Model of the front end's API service layer (services/api.js) and of    *)
(* the statistics derived by the ConfusionMatrix component.               *)
(*                                                                         *)
(* JavaScript values are records tagged by their type: t = "undefined",    *)
(* "null", "string", "number", "array", "file", "function" or "object".    *)
(* Property                                                                *)
(* access, optional chaining, truthiness and the || operator are modelled  *)
(* as JavaScript evaluates them.                                           *)
(***************************************************************************)
EXTENDS Integers, Sequences, FiniteSets, TLC

VARIABLES calls, requests, icpt, sel, cm, pr, mv, chat, cv

vars == <<calls, requests, icpt, sel, cm, pr, mv, chat, cv>>

(* ----------------------------- bounds ---------------------------------- *)

\* API client calls made by the callers in one run of the model.
MaxCalls == 2

\* Largest count in a cell of the small confusion matrices.
MaxCount == 3

(* -------------------------- JavaScript values -------------------------- *)

Undefined == [t |-> "undefined"]

Null == [t |-> "null"]

Str(s) == [t |-> "string", v |-> s]

\* A string held as its sequence of characters, where the code looks inside it.
Text(chars) == [t |-> "string", chars |-> chars]

\* A reference to a function of the module.
Fn(name) == [t |-> "function", name |-> name]

Num(n) == [t |-> "number", n |-> n]

Arr(items) == [t |-> "array", items |-> items]

Obj(f) == [t |-> "object", f |-> f]

File(type, size) == [t |-> "file", type |-> type, size |-> size]

\* ToBoolean: undefined, null, "" and 0 are falsy, everything else truthy.
Truthy(x) ==
    CASE x.t = "undefined" -> FALSE
      [] x.t = "null" -> FALSE
      [] x.t = "string" -> IF "v" \in DOMAIN x THEN x.v # "" ELSE x.chars # << >>
      [] x.t = "number" -> x.n # 0
      [] OTHER -> TRUE

\* a || b
Or(a, b) == IF Truthy(a) THEN a ELSE b

\* typeof x
TypeOf(x) == IF x.t \in {"null", "array", "file"} THEN "object" ELSE x.t

\* Array.isArray(x)
IsArray(x) == x.t = "array"

\* obj?.name : undefined on undefined/null, and for a property that is absent.
Get(obj, name) ==
    IF obj.t = "object" /\ name \in DOMAIN obj.f THEN obj.f[name] ELSE Undefined

\* new Error(message): an Error has a message and no status property.
NewError(message) == Obj([message |-> Str(message)])

(* ----------------------------- API client ------------------------------ *)

\* The five exported operations of the service layer.
Operations ==
    {"uploadImageAndPredict", "summarizeText", "sendChatMessage",
     "getMetrics", "checkHealth"}

\* axios.create({ timeout: 30000 })
timeout == 30000

\* apiClient.post / apiClient.get: hands ONE request to the transport.
apiClientRequestTwice(reqs, id, method, url) ==
    reqs \o << [call |-> id, method |-> method, url |-> url, timeout |-> timeout],
               [call |-> id, method |-> method, url |-> url, timeout |-> timeout] >>

apiClientRequest(reqs, id, method, url) ==
    Append(reqs, [call |-> id, method |-> method, url |-> url, timeout |-> timeout])

\* The response interceptor's fulfilled handler: (response) => response.
onFulfilledUnwrap(response) == Get(response, "data")

onFulfilled(response) == response

\* The response interceptor's rejected handler: builds the standard error.
onRejectedTransportFirst(error) ==
    LET message == Or(Get(error, "message"),
                   Or(Get(Get(Get(error, "response"), "data"), "error"),
                   Or(Get(Get(Get(error, "response"), "data"), "message"),
                      Str("An unexpected error occurred"))))
    IN  Obj([message |-> message,
             status |-> Or(Get(Get(error, "response"), "status"), Num(500)),
             originalError |-> error])

onRejectedNoStatus(error) ==
    LET message == Or(Get(Get(Get(error, "response"), "data"), "error"),
                   Or(Get(Get(Get(error, "response"), "data"), "message"),
                   Or(Get(error, "message"),
                      Str("An unexpected error occurred"))))
    IN  Obj([message |-> message, originalError |-> error])

onRejected(error) ==
    LET message == Or(Get(Get(Get(error, "response"), "data"), "error"),
                   Or(Get(Get(Get(error, "response"), "data"), "message"),
                   Or(Get(error, "message"),
                      Str("An unexpected error occurred"))))
    IN  Obj([message |-> message,
             status |-> Or(Get(Get(error, "response"), "status"), Num(500)),
             originalError |-> error])

\* uploadImageAndPredict's validation constants.
validTypes == {"image/jpeg", "image/png", "image/webp", "image/gif"}

maxSize == 10 * 1024 * 1024

\* The checks uploadImageAndPredict makes before it builds the form data:
\* the message of the Error it throws, or "" when the file passes.
imageErrorNoSizeCheck(imageFile) ==
    IF ~Truthy(imageFile) THEN "No image file provided"
    ELSE IF imageFile.type \notin validTypes
         THEN "Invalid file type. Please upload a JPEG, PNG, WebP, or GIF image."
    ELSE ""

imageError(imageFile) ==
    IF ~Truthy(imageFile) THEN "No image file provided"
    ELSE IF imageFile.type \notin validTypes
         THEN "Invalid file type. Please upload a JPEG, PNG, WebP, or GIF image."
    ELSE IF imageFile.size > maxSize
         THEN "File too large. Maximum size is 10MB."
    ELSE ""

\* summarizeText's check: !text || typeof text !== 'string'.
textErrorTruthyOnly(text) ==
    IF ~Truthy(text) THEN "Text is required for summarization" ELSE ""

textError(text) ==
    IF ~Truthy(text) \/ TypeOf(text) # "string"
    THEN "Text is required for summarization"
    ELSE ""

\* sendChatMessage's checks: the array test, then the loop over the messages.
messagesError(messages) ==
    IF ~IsArray(messages) \/ Len(messages.items) = 0
    THEN "Messages array is required"
    ELSE IF \E k \in 1..Len(messages.items) :
              ~Truthy(Get(messages.items[k], "role"))
              \/ ~Truthy(Get(messages.items[k], "content"))
         THEN "Each message must have a role and content"
    ELSE ""

\* A call that threw before its first await: the promise is rejected with
\* the Error and nothing was handed to the transport.
Thrown(op, arg, message) ==
    [op |-> op, arg |-> arg, pc |-> "rejected", dispatched |-> FALSE,
     raw |-> Undefined, result |-> NewError(message)]

\* A call suspended at "await apiClient.post/get(...)".
Awaiting(op, arg) ==
    [op |-> op, arg |-> arg, pc |-> "awaiting", dispatched |-> TRUE,
     raw |-> Undefined, result |-> Undefined]

(* ------------------------------ inputs --------------------------------- *)

ImageFiles ==
    {Null} \cup
    {File(type, size) :
        type \in validTypes \cup {"text/plain"},
        size \in {maxSize, maxSize + 1}}
    \cup {File("image/png", 15 * 1000 * 1000)}

Texts == {Undefined, Str(""), Num(42), Str("Model predicted Real")}

ChatMessages ==
    {Obj([role |-> Str("user"), content |-> Str("hi")]),
     Obj([role |-> Str("user")]),
     Obj([role |-> Str(""), content |-> Str("hi")])}

MessageLists ==
    {Undefined, Arr(<< >>)}
    \cup {Arr(<<m>>) : m \in ChatMessages}
    \cup {Arr(<<m1, m2>>) : m1 \in ChatMessages, m2 \in ChatMessages}

\* Payloads a backend may put in a 2xx response, well formed or not.
Payloads(op) ==
    CASE op = "uploadImageAndPredict" ->
            {Obj([prediction |-> Str("Real"), confidence |-> Num(93)]),
             Obj([prediction |-> Str("Fake")])}
      [] op = "summarizeText" ->
            {Obj([summary |-> Str("The model is confident")]), Str("<html>")}
      [] op = "sendChatMessage" ->
            {Obj([reply |-> Str("The model detected artifacts")]),
             Obj([detail |-> Str("ok")])}
      [] op = "getMetrics" ->
            {Obj([epochs |-> Arr(<<Num(1)>>), confusion_matrix |-> Arr(<<>>)]),
             Obj([detail |-> Str("ok")])}
      [] OTHER ->
            {Obj([status |-> Str("ok")]), Obj([detail |-> Str("ok")])}

\* What the transport hands to the rejected handler: an HTTP error response
\* with a body, or an error without a response (network failure, timeout).
ErrorBodies ==
    {Obj([error |-> e, message |-> m]) :
        e \in {Str(""), Str("Unsupported image")},
        m \in {Str(""), Str("Server says no")}}
    \cup {Obj([detail |-> Str("x")]), Str("<html>Bad Gateway</html>")}

TransportMessages == {Str(""), Str("Network Error"), Str("Request failed")}

TransportErrors ==
    {Obj([message |-> tm, response |-> Obj([status |-> Num(s), data |-> d])]) :
        tm \in TransportMessages, s \in {400, 404, 500, 503}, d \in ErrorBodies}
    \cup {Obj([message |-> tm]) : tm \in TransportMessages}
    \cup {Obj([message |-> Str("timeout of 30000ms exceeded"), code |-> Str("ECONNABORTED")])}

\* The failures used where several calls are in flight together.
CallErrors ==
    {Obj([message |-> Str("Request failed with status code 404"),
          response |-> Obj([status |-> Num(404),
                            data |-> Obj([error |-> Str("Unsupported image")])])]),
     Obj([message |-> Str("Network Error")])}

(* ----------------------------- operations ------------------------------ *)

uploadImageAndPredict(imageFile) ==
    /\ Len(calls) < MaxCalls
    /\ LET id == Len(calls) + 1
           op == "uploadImageAndPredict"
       IN  IF imageError(imageFile) # ""
           THEN /\ calls' = Append(calls, Thrown(op, imageFile, imageError(imageFile)))
                /\ UNCHANGED requests
           ELSE /\ calls' = Append(calls, Awaiting(op, imageFile))
                /\ requests' = apiClientRequest(requests, id, "POST", "/api/predict")
    /\ UNCHANGED <<icpt, sel, cm, pr, mv, chat, cv>>

summarizeText(text) ==
    /\ Len(calls) < MaxCalls
    /\ LET id == Len(calls) + 1
           op == "summarizeText"
       IN  IF textError(text) # ""
           THEN /\ calls' = Append(calls, Thrown(op, text, textError(text)))
                /\ UNCHANGED requests
           ELSE /\ calls' = Append(calls, Awaiting(op, text))
                /\ requests' = apiClientRequest(requests, id, "POST", "/api/gen/summary")
    /\ UNCHANGED <<icpt, sel, cm, pr, mv, chat, cv>>

sendChatMessage(messages) ==
    /\ Len(calls) < MaxCalls
    /\ LET id == Len(calls) + 1
           op == "sendChatMessage"
       IN  IF messagesError(messages) # ""
           THEN /\ calls' = Append(calls, Thrown(op, messages, messagesError(messages)))
                /\ UNCHANGED requests
           ELSE /\ calls' = Append(calls, Awaiting(op, messages))
                /\ requests' = apiClientRequest(requests, id, "POST", "/api/chat")
    /\ UNCHANGED <<icpt, sel, cm, pr, mv, chat, cv>>

getMetrics ==
    /\ Len(calls) < MaxCalls
    /\ calls' = Append(calls, Awaiting("getMetrics", Undefined))
    /\ requests' = apiClientRequest(requests, Len(calls) + 1, "GET", "/api/metrics")
    /\ UNCHANGED <<icpt, sel, cm, pr, mv, chat, cv>>

checkHealth ==
    /\ Len(calls) < MaxCalls
    /\ calls' = Append(calls, Awaiting("checkHealth", Undefined))
    /\ requests' = apiClientRequest(requests, Len(calls) + 1, "GET", "/api/health")
    /\ UNCHANGED <<icpt, sel, cm, pr, mv, chat, cv>>

\* The transport answers call i with a 2xx response: the fulfilled handler
\* runs and the operation returns response.data.
ResponseFulfilled(i, data) ==
    /\ calls[i].pc = "awaiting"
    /\ LET response == Obj([status |-> Num(200), data |-> data])
       IN  calls' = [calls EXCEPT ![i].pc = "resolved",
                                  ![i].raw = response,
                                  ![i].result = Get(onFulfilled(response), "data")]
    /\ UNCHANGED <<requests, icpt, sel, cm, pr, mv, chat, cv>>

\* The transport fails call i: the rejected handler runs and the operation's
\* promise is rejected with the standard error.
ResponseRejected(i, error) ==
    /\ calls[i].pc = "awaiting"
    /\ calls' = [calls EXCEPT ![i].pc = "rejected",
                              ![i].raw = error,
                              ![i].result = onRejected(error)]
    /\ UNCHANGED <<requests, icpt, sel, cm, pr, mv, chat, cv>>

\* The rejected handler on its own, over every shape of failure.
Intercept ==
    /\ icpt.pc = "failed"
    /\ icpt' = [icpt EXCEPT !.pc = "rejected", !.standardError = onRejected(icpt.error)]
    /\ UNCHANGED <<calls, requests, sel, cm, pr, mv, chat, cv>>

InitClient ==
    /\ calls = << >>
    /\ requests = << >>

InitIcpt == icpt = [pc |-> "idle", error |-> Undefined, standardError |-> Undefined]

InitSel ==
    sel = [pc |-> "idle", op |-> "checkHealth", USE_MOCKS |-> FALSE, args |-> << >>,
           apiFunction |-> Undefined, result |-> Undefined]

InitCm == cm = [pc |-> "idle", matrix |-> << <<0, 0>>, <<0, 0>> >>, shown |-> Undefined]

InitPr == pr = [pc |-> "idle", unit |-> "fraction", confidence |-> Undefined, shown |-> Undefined]

\* The views that are not mounted.
InitMv == mv = [pc |-> "unmounted"]

InitChat == chat = [pc |-> "unmounted"]

InitCv == cv = [pc |-> "unmounted"]

InitViews == InitPr /\ InitMv /\ InitChat /\ InitCv

Init ==
    /\ InitClient
    /\ InitIcpt
    /\ InitSel
    /\ InitCm
    /\ InitViews

Next ==
    \/ \E imageFile \in ImageFiles : uploadImageAndPredict(imageFile)
    \/ \E text \in Texts : summarizeText(text)
    \/ \E messages \in MessageLists : sendChatMessage(messages)
    \/ getMetrics
    \/ checkHealth
    \/ \E i \in 1..Len(calls) : \E data \in Payloads(calls[i].op) : ResponseFulfilled(i, data)
    \/ \E i \in 1..Len(calls) : \E error \in CallErrors : ResponseRejected(i, error)

Spec == Init /\ [][Next]_vars

InitInterceptor ==
    /\ InitClient
    /\ InitSel
    /\ InitCm
    /\ InitViews
    /\ icpt \in {[pc |-> "failed", error |-> e, standardError |-> Undefined] :
                    e \in TransportErrors}

NextInterceptor == Intercept

SpecInterceptor == InitInterceptor /\ [][NextInterceptor]_vars

(* ------------------------------- mocks --------------------------------- *)

\* export const mocks = { ... }: the table of simulated operations.
mocksNoMetrics ==
    Obj([uploadImageAndPredict |-> Fn("mockUploadImageAndPredict"),
         sendChatMessage |-> Fn("mockSendChatMessage"),
         summarizeText |-> Fn("mockSummarizeText")])

mocks ==
    Obj([uploadImageAndPredict |-> Fn("mockUploadImageAndPredict"),
         getMetrics |-> Fn("mockGetMetrics"),
         sendChatMessage |-> Fn("mockSendChatMessage"),
         summarizeText |-> Fn("mockSummarizeText")])

\* String.prototype.toLowerCase, character by character.
upperCase ==
    [A |-> "a", B |-> "b", C |-> "c", D |-> "d", E |-> "e", F |-> "f", G |-> "g",
     H |-> "h", I |-> "i", J |-> "j", K |-> "k", L |-> "l", M |-> "m", N |-> "n",
     O |-> "o", P |-> "p", Q |-> "q", R |-> "r", S |-> "s", T |-> "t", U |-> "u",
     V |-> "v", W |-> "w", X |-> "x", Y |-> "y", Z |-> "z"]

toLowerCase(chars) ==
    [k \in 1..Len(chars) |->
        IF chars[k] \in DOMAIN upperCase THEN upperCase[chars[k]] ELSE chars[k]]

\* String.prototype.includes
includes(chars, sub) ==
    \E k \in 0..(Len(chars) - Len(sub)) : SubSeq(chars, k + 1, k + Len(sub)) = sub

\* The keywords of the mock chat, as characters.
kwFake == <<"f", "a", "k", "e">>

kwAi == <<"a", "i">>

kwReal == <<"r", "e", "a", "l">>

kwAccuracy == <<"a", "c", "c", "u", "r", "a", "c", "y">>

kwPerformance == <<"p", "e", "r", "f", "o", "r", "m", "a", "n", "c", "e">>

\* The four canned replies (their opening words).
replyArtifacts == Str("AI-generated faces often exhibit subtle artifacts ...")

replyAuthentic == Str("Real photographs show natural variations ...")

replyMetrics == Str("Our model achieves approximately 89% validation accuracy ...")

replyHelp == Str("I can help explain how our Real vs AI face classifier works. ...")

\* The body of mockSendChatMessage after its delay.
mockChatReplyRealFirst(messages) ==
    LET lastMessage == messages.items[Len(messages.items)]
        userQuery == toLowerCase(Get(lastMessage, "content").chars)
    IN  IF includes(userQuery, kwReal)
        THEN Obj([reply |-> replyAuthentic])
        ELSE IF includes(userQuery, kwFake) \/ includes(userQuery, kwAi)
        THEN Obj([reply |-> replyArtifacts])
        ELSE IF includes(userQuery, kwAccuracy) \/ includes(userQuery, kwPerformance)
        THEN Obj([reply |-> replyMetrics])
        ELSE Obj([reply |-> replyHelp])

mockChatReply(messages) ==
    LET lastMessage == messages.items[Len(messages.items)]
        userQuery == toLowerCase(Get(lastMessage, "content").chars)
    IN  IF includes(userQuery, kwFake) \/ includes(userQuery, kwAi)
        THEN Obj([reply |-> replyArtifacts])
        ELSE IF includes(userQuery, kwReal)
        THEN Obj([reply |-> replyAuthentic])
        ELSE IF includes(userQuery, kwAccuracy) \/ includes(userQuery, kwPerformance)
        THEN Obj([reply |-> replyMetrics])
        ELSE Obj([reply |-> replyHelp])

\* The report mockGetMetrics returns; the curves in hundredths.
mockMetrics ==
    [epochs |-> <<1, 2, 3, 4, 5, 6, 7, 8, 9, 10>>,
     train_accuracy |-> <<52, 65, 73, 79, 84, 87, 90, 92, 94, 95>>,
     val_accuracy |-> <<50, 62, 70, 76, 80, 83, 85, 87, 88, 89>>,
     train_loss |-> <<95, 78, 62, 50, 42, 35, 28, 23, 19, 16>>,
     val_loss |-> <<98, 82, 68, 58, 50, 45, 40, 37, 35, 34>>,
     confusion_matrix |-> << <<4250, 350>>, <<420, 4980>> >>]

\* Words the chat contents of the model are made of.
Words ==
    { <<"f", "a", "k", "e">>, <<"F", "A">>, <<"K", "E">>, <<"A", "I">>,
      <<"R", "e", "a", "l">>, <<"r", "e">>, <<"a", "l">>,
      <<"a", "c", "c", "u", "r", "a", "c", "y">>,
      <<"P", "e", "r", "f", "o", "r", "m", "a", "n", "c", "e">>,
      <<"h", "e", "l", "l", "o">>, <<"t", "r", "a", "i", "n">>, <<" ">> }

Contents == Words \cup {w1 \o w2 : w1 \in Words, w2 \in Words}

\* The lists the views pass: the history followed by the new user message.
Histories ==
    { << >>,
      << Obj([role |-> Str("user"), content |-> Text(<<"f", "a", "k", "e">>)]),
         Obj([role |-> Str("assistant"), content |-> Text(<<"R", "e", "a", "l">>)]) >> }

ChatArgs ==
    { << Arr(Append(h, Obj([role |-> Str("user"), content |-> Text(c)]))) >> :
        h \in Histories, c \in Contents }

\* The arguments the views pass to each operation.
ArgsOf(op) ==
    CASE op = "sendChatMessage" -> ChatArgs
      [] op = "summarizeText" ->
            { <<Str("Model predicted Real"), ctx>> :
                ctx \in {Undefined, Str(""), Str("image classification results")} }
      [] op = "uploadImageAndPredict" -> { <<File("image/png", 1024)>> }
      [] OTHER -> { << >> }

\* const apiFunction = USE_MOCKS ? mocks.<op> : <op>;
SelectApiFunction ==
    /\ sel.pc = "start"
    /\ sel' = [sel EXCEPT !.pc = "selected",
                          !.apiFunction = IF sel.USE_MOCKS THEN Get(mocks, sel.op)
                                          ELSE Fn(sel.op)]
    /\ UNCHANGED <<calls, requests, icpt, cm, pr, mv, chat, cv>>

\* The selected function is one of the real operations: the call goes on in
\* the API client.
CallReal ==
    /\ sel.pc = "selected"
    /\ sel.apiFunction = Fn(sel.op)
    /\ sel' = [sel EXCEPT !.pc = "real"]
    /\ UNCHANGED <<calls, requests, icpt, cm, pr, mv, chat, cv>>

\* Calling a table entry that does not exist throws a TypeError.
CallUndefined ==
    /\ sel.pc = "selected"
    /\ sel.apiFunction = Undefined
    /\ sel' = [sel EXCEPT !.pc = "threw",
                          !.result = NewError("apiFunction is not a function")]
    /\ UNCHANGED <<calls, requests, icpt, cm, pr, mv, chat, cv>>

\* The object mockUploadImageAndPredict returns for its two random draws.
mockPrediction(isReal, confidence) ==
    Obj([prediction |-> IF isReal THEN Str("Real") ELSE Str("Fake"),
         confidence |-> [t |-> "number", n |-> confidence, d |-> 100],
         details |-> IF isReal THEN Str("The image shows natural skin texture ...")
                     ELSE Str("The model detected artifacts in the eye region ...")])

mockUploadImageAndPredict(isReal, confidence) ==
    /\ sel.pc = "selected"
    /\ sel.apiFunction = Fn("mockUploadImageAndPredict")
    /\ sel' = [sel EXCEPT !.pc = "resolved", !.result = mockPrediction(isReal, confidence)]
    /\ UNCHANGED <<calls, requests, icpt, cm, pr, mv, chat, cv>>

mockGetMetrics ==
    /\ sel.pc = "selected"
    /\ sel.apiFunction = Fn("mockGetMetrics")
    /\ sel' = [sel EXCEPT !.pc = "resolved", !.result = mockMetrics]
    /\ UNCHANGED <<calls, requests, icpt, cm, pr, mv, chat, cv>>

mockSendChatMessage ==
    /\ sel.pc = "selected"
    /\ sel.apiFunction = Fn("mockSendChatMessage")
    /\ sel' = [sel EXCEPT !.pc = "resolved", !.result = mockChatReply(sel.args[1])]
    /\ UNCHANGED <<calls, requests, icpt, cm, pr, mv, chat, cv>>

mockSummarizeText ==
    /\ sel.pc = "selected"
    /\ sel.apiFunction = Fn("mockSummarizeText")
    /\ sel' = [sel EXCEPT !.pc = "resolved",
                          !.result = Obj([summary |->
                               << Str("Based on the "),
                                  Or(sel.args[2], Str("provided context")),
                                  Str(": The analysis indicates ...") >>])]
    /\ UNCHANGED <<calls, requests, icpt, cm, pr, mv, chat, cv>>

InitMocks ==
    /\ InitClient
    /\ InitIcpt
    /\ InitCm
    /\ InitViews
    /\ sel \in { [pc |-> "start", op |-> op, USE_MOCKS |-> um, args |-> a,
                  apiFunction |-> Undefined, result |-> Undefined] :
                 <<op, um, a>> \in
                    UNION { {<<o, u, x>> : u \in BOOLEAN, x \in ArgsOf(o)} : o \in Operations } }

NextMocks ==
    \/ SelectApiFunction
    \/ CallReal
    \/ CallUndefined
    \/ \E isReal \in BOOLEAN : \E confidence \in {75, 85, 95} :
          mockUploadImageAndPredict(isReal, confidence)
    \/ mockGetMetrics
    \/ mockSendChatMessage
    \/ mockSummarizeText

SpecMocks == InitMocks /\ [][NextMocks]_vars

(* -------------------------- confusion matrix --------------------------- *)

\* JavaScript numbers of the statistics, kept exactly: a fraction in lowest
\* terms, or NaN (the result of 0 / 0).
RECURSIVE GCD(_, _)
GCD(a, b) == IF b = 0 THEN a ELSE GCD(b, a % b)

NaN == [t |-> "number", nan |-> TRUE]

Rat(n, d) == [t |-> "number", nan |-> FALSE, n |-> n \div GCD(n, d), d |-> d \div GCD(n, d)]

IsNaN(x) == x.nan

\* a / b on non-negative numbers; 0 / 0 is NaN (a positive number is never
\* divided by 0 here: every divisor is a sum that contains its dividend).
Divide(a, b) ==
    IF IsNaN(a) \/ IsNaN(b) \/ b.n = 0 THEN NaN
    ELSE Rat(a.n * b.d, a.d * b.n)

Times(a, b) == IF IsNaN(a) \/ IsNaN(b) THEN NaN ELSE Rat(a.n * b.n, a.d * b.d)

Plus(a, b) == IF IsNaN(a) \/ IsNaN(b) THEN NaN ELSE Rat(a.n * b.d + b.n * a.d, a.d * b.d)

\* a > 0: false for NaN.
Positive(a) == ~IsNaN(a) /\ a.n > 0

\* Number.prototype.toFixed(1): the text of the nearest tenth, the larger one
\* when two are equally near; "NaN" for NaN.  `tenths` is the text's value
\* times ten.
toFixed1(x) ==
    IF IsNaN(x) THEN [text |-> "NaN"]
    ELSE [text |-> "fixed", tenths |-> (20 * x.n + x.d) \div (2 * x.d)]

\* parseFloat of a text that toFixed(1) produced.
parseFloat(str) == IF str.text = "fixed" THEN Rat(str.tenths, 10) ELSE NaN

\* (p + r > 0) ? (2 * p * r / (p + r)).toFixed(1) : 'N/A'
f1ScoreUnguarded(precision, recall) ==
    LET p == parseFloat(precision)
        r == parseFloat(recall)
    IN  IF ~IsNaN(p) /\ ~IsNaN(r)
        THEN toFixed1(Divide(Times(Times(Rat(2, 1), p), r), Plus(p, r)))
        ELSE [text |-> "N/A"]

f1Score(precision, recall) ==
    LET p == parseFloat(precision)
        r == parseFloat(recall)
    IN  IF Positive(Plus(p, r))
        THEN toFixed1(Divide(Times(Times(Rat(2, 1), p), r), Plus(p, r)))
        ELSE [text |-> "N/A"]

\* The statistics ConfusionMatrix computes from its matrix prop.
Statistics(matrix) ==
    LET tn == matrix[1][1]
        fp == matrix[1][2]
        fn == matrix[2][1]
        tp == matrix[2][2]
        total == tn + fp + fn + tp
        accuracy == toFixed1(Times(Divide(Rat(tn + tp, 1), Rat(total, 1)), Rat(100, 1)))
        precision == toFixed1(Times(Divide(Rat(tp, 1), Rat(tp + fp, 1)), Rat(100, 1)))
        recall == toFixed1(Times(Divide(Rat(tp, 1), Rat(tp + fn, 1)), Rat(100, 1)))
    IN  [accuracy |-> accuracy, precision |-> precision, recall |-> recall,
         f1Score |-> f1Score(precision, recall)]

\* The matrices given to the component: every small one, the one of the mock
\* report, and two with a rare positive class.
Matrices ==
    { << <<tn, fp>>, <<fn, tp>> >> :
        tn \in 0..MaxCount, fp \in 0..MaxCount, fn \in 0..MaxCount, tp \in 0..MaxCount }
    \cup { mockMetrics.confusion_matrix,
           << <<0, 3000>>, <<2500, 1>> >>,
           << <<5000, 0>>, <<4000, 1>> >> }

\* One render of the component.
ConfusionMatrix ==
    /\ cm.pc = "props"
    /\ cm' = [cm EXCEPT !.pc = "rendered", !.shown = Statistics(cm.matrix)]
    /\ UNCHANGED <<calls, requests, icpt, sel, pr, mv, chat, cv>>

InitStats ==
    /\ InitClient
    /\ InitIcpt
    /\ InitSel
    /\ InitViews
    /\ cm \in {[pc |-> "props", matrix |-> m, shown |-> Undefined] : m \in Matrices}

NextStats == ConfusionMatrix

SpecStats == InitStats /\ [][NextStats]_vars

(* -------------------------- prediction result -------------------------- *)

\* a > b on numbers; false when either is NaN.
GreaterThan(a, b) == ~IsNaN(a) /\ ~IsNaN(b) /\ a.n * b.d > b.n * a.d

\* a >= b and a < b on numbers; false when either is NaN.
AtLeast(a, b) == ~IsNaN(a) /\ ~IsNaN(b) /\ a.n * b.d >= b.n * a.d

LessThan(a, b) == ~IsNaN(a) /\ ~IsNaN(b) /\ a.n * b.d < b.n * a.d

\* confidence > 1 ? confidence : confidence * 100
confidencePercentAlwaysScaled(confidence) == Times(confidence, Rat(100, 1))

confidencePercentFromOne(confidence) ==
    IF AtLeast(confidence, Rat(1, 1)) THEN confidence ELSE Times(confidence, Rat(100, 1))

confidencePercentOf(confidence) ==
    IF GreaterThan(confidence, Rat(1, 1)) THEN confidence ELSE Times(confidence, Rat(100, 1))

\* getConfidenceLevel(percent)
getConfidenceLevel(percent) ==
    IF AtLeast(percent, Rat(85, 1)) THEN "high"
    ELSE IF AtLeast(percent, Rat(65, 1)) THEN "medium"
    ELSE "low"

\* The sentences of the interpretation note that the render includes.
interpretationNote(percent) ==
    (IF LessThan(percent, Rat(70, 1)) THEN {"low"} ELSE {})
    \cup (IF AtLeast(percent, Rat(70, 1)) /\ LessThan(percent, Rat(85, 1))
          THEN {"verify"} ELSE {})
    \cup (IF AtLeast(percent, Rat(85, 1)) THEN {"high"} ELSE {})

\* The confidences a result may carry: fractions in hundredths (the mock
\* reports two decimals) and percentages in tenths.
Confidences ==
    { [unit |-> "fraction", confidence |-> Rat(k, 100)] : k \in 0..100 }
    \cup { [unit |-> "percentage", confidence |-> Rat(k, 10)] : k \in 0..1000 }

\* One render of the component.
PredictionResult ==
    /\ pr.pc = "props"
    /\ LET confidencePercent == confidencePercentOf(pr.confidence)
       IN  pr' = [pr EXCEPT !.pc = "rendered",
                            !.shown = [confidencePercent |-> confidencePercent,
                                       confidenceDisplay |-> toFixed1(confidencePercent),
                                       confidenceLevel |-> getConfidenceLevel(confidencePercent),
                                       note |-> interpretationNote(confidencePercent)]]
    /\ UNCHANGED <<calls, requests, icpt, sel, cm, mv, chat, cv>>

InitPrediction ==
    /\ InitClient
    /\ InitIcpt
    /\ InitSel
    /\ InitCm
    /\ InitCv
    /\ InitMv
    /\ InitChat
    /\ pr \in { [pc |-> "props", unit |-> c.unit, confidence |-> c.confidence,
                 shown |-> Undefined] : c \in Confidences }

NextPrediction == PredictionResult

SpecPrediction == InitPrediction /\ [][NextPrediction]_vars

(* ------------------------------ chat view ------------------------------ *)

\* Sends of one chat session that the model follows.
MaxSends == 2

\* String.prototype.trim
whitespace == {" ", "\t", "\n"}

RECURSIVE trimStart(_)
trimStart(chars) ==
    IF chars # << >> /\ Head(chars) \in whitespace THEN trimStart(Tail(chars)) ELSE chars

RECURSIVE trimEnd(_)
trimEnd(chars) ==
    IF chars # << >> /\ chars[Len(chars)] \in whitespace
    THEN trimEnd(SubSeq(chars, 1, Len(chars) - 1))
    ELSE chars

trim(chars) == trimEnd(trimStart(chars))

\* The questions of the sidebar.
suggestedQuestions ==
    <<
      <<"H", "o", "w", " ", "d", "o", "e", "s", " ", "t", "h", "e", " ", "m",
        "o", "d", "e", "l", " ", "d", "e", "t", "e", "c", "t", " ", "A", "I",
        "-", "g", "e", "n", "e", "r", "a", "t", "e", "d", " ", "f", "a", "c",
        "e", "s", "?">>,
      <<"W", "h", "a", "t", " ", "f", "e", "a", "t", "u", "r", "e", "s", " ",
        "d", "i", "s", "t", "i", "n", "g", "u", "i", "s", "h", " ", "r", "e",
        "a", "l", " ", "p", "h", "o", "t", "o", "s", " ", "f", "r", "o", "m",
        " ", "f", "a", "k", "e", " ", "o", "n", "e", "s", "?">>,
      <<"W", "h", "y", " ", "m", "i", "g", "h", "t", " ", "t", "h", "e", " ",
        "m", "o", "d", "e", "l", " ", "h", "a", "v", "e", " ", "l", "o", "w",
        " ", "c", "o", "n", "f", "i", "d", "e", "n", "c", "e", "?">>,
      <<"W", "h", "a", "t", " ", "i", "s", " ", "t", "h", "e", " ", "G", "e",
        "n", "I", "m", "a", "g", "e", " ", "d", "a", "t", "a", "s", "e", "t",
        "?">>
    >>

\* What the user types into the textarea.
InputValues ==
    { << >>, <<" ", "\n">>, <<"h", "e", "l", "l", "o">>,
      <<" ", "f", "a", "k", "e", " ">>, <<"i", "s", " ", "i", "t", " ", "R", "e", "a", "l">> }

\* What the selected function resolves with or throws at the view.
ChatResponses == Payloads("sendChatMessage") \cup {Null}

ChatFailures == { onRejected(e) : e \in CallErrors } \cup { NewError("") }

\* What the selected function can throw for a list of messages: the real
\* sendChatMessage throws its validation error before any request, the mock
\* throws nothing.
ChatFailuresOf(useMocks, updatedMessages) ==
    IF useMocks THEN {}
    ELSE IF messagesError(Arr(updatedMessages)) # ""
    THEN { NewError(messagesError(Arr(updatedMessages))) }
    ELSE ChatFailures

\* What it can resolve with.
ChatResponsesOf(useMocks, updatedMessages) ==
    IF useMocks THEN { mockChatReply(Arr(updatedMessages)) }
    ELSE IF messagesError(Arr(updatedMessages)) # "" THEN {}
    ELSE ChatResponses

\* if (!trimmedInput || isLoading) return;
submitRefusedWhenEmpty(trimmedInput, isLoading) == trimmedInput = << >>

submitRefusedWhenLoading(trimmedInput, isLoading) == isLoading

submitRefused(trimmedInput, isLoading) == trimmedInput = << >> \/ isLoading

\* err.message || 'Failed to get response. Please try again.'
chatErrorOfMessageOnly(err) == Get(err, "message")

chatErrorOf(err) == Or(Get(err, "message"), Str("Failed to get response. Please try again."))

\* The body of handleSendMessage up to its await: the user message is
\* added, the error cleared, and the request leaves with updatedMessages.
\* sends, nextSend and the send of a request number the sends of the session.
handleSendMessage(userMessage) ==
    LET newUserMessage == Obj([role |-> Str("user"), content |-> Text(userMessage)])
        updatedMessages == Append(chat.messages, newUserMessage)
        updatedSends == Append(chat.sends, chat.nextSend)
    IN  [chat EXCEPT !.messages = updatedMessages,
                     !.sends = updatedSends,
                     !.chatError = Null,
                     !.isChatLoading = TRUE,
                     !.nextSend = @ + 1,
                     !.awaited = @ \cup {[send |-> chat.nextSend,
                                          updatedMessages |-> updatedMessages,
                                          updatedSends |-> updatedSends]}]

\* onChange of the textarea, which is disabled while a reply is awaited.
setInputValue(value) ==
    /\ chat.pc = "mounted"
    /\ ~chat.isChatLoading
    /\ chat' = [chat EXCEPT !.inputValue = value]
    /\ UNCHANGED <<calls, requests, icpt, sel, cm, pr, mv, cv>>

\* handleSubmit of the chat form.
handleSubmit ==
    /\ chat.pc = "mounted"
    /\ LET trimmedInput == trim(chat.inputValue)
       IN  IF submitRefused(trimmedInput, chat.isChatLoading)
           THEN chat' = [chat EXCEPT !.refused = @ \/ (trimmedInput # << >>)]
           ELSE /\ chat.nextSend <= MaxSends
                /\ chat' = [handleSendMessage(trimmedInput) EXCEPT !.inputValue = << >>]
    /\ UNCHANGED <<calls, requests, icpt, sel, cm, pr, mv, cv>>

\* A click on a suggested question; the buttons are disabled while loading.
SuggestedQuestion(index) ==
    /\ chat.pc = "mounted"
    /\ ~chat.isChatLoading
    /\ chat.nextSend <= MaxSends
    /\ chat' = handleSendMessage(suggestedQuestions[index])
    /\ UNCHANGED <<calls, requests, icpt, sel, cm, pr, mv, cv>>

\* The rest of handleSendMessage when the awaited call resolves: the reply
\* goes after updatedMessages; reading .reply of null throws into the catch.
ChatResolved(request, response) ==
    /\ chat.pc = "mounted"
    /\ request \in chat.awaited
    /\ response \in ChatResponsesOf(chat.USE_MOCKS, request.updatedMessages)
    /\ IF response.t \in {"null", "undefined"}
       THEN chat' = [chat EXCEPT !.chatError = Str("Cannot read properties of null"),
                                 !.isChatLoading = FALSE,
                                 !.awaited = @ \ {request}]
       ELSE chat' = [chat EXCEPT
                        !.messages = Append(request.updatedMessages,
                                            Obj([role |-> Str("assistant"),
                                                 content |-> Get(response, "reply")])),
                        !.sends = Append(request.updatedSends, request.send),
                        !.resolved = @ \cup {request.send},
                        !.isChatLoading = FALSE,
                        !.awaited = @ \ {request}]
    /\ UNCHANGED <<calls, requests, icpt, sel, cm, pr, mv, cv>>

\* The rest of handleSendMessage when the awaited call rejects.
ChatRejected(request, err) ==
    /\ chat.pc = "mounted"
    /\ request \in chat.awaited
    /\ err \in ChatFailuresOf(chat.USE_MOCKS, request.updatedMessages)
    /\ chat' = [chat EXCEPT
                    !.chatError = chatErrorOf(err),
                    !.isChatLoading = FALSE,
                    !.awaited = @ \ {request}]
    /\ UNCHANGED <<calls, requests, icpt, sel, cm, pr, mv, cv>>

\* The Clear Chat button, shown while the conversation is not empty.
handleClearChat ==
    /\ chat.pc = "mounted"
    /\ Len(chat.messages) > 0
    /\ chat' = [chat EXCEPT !.messages = << >>, !.sends = << >>, !.chatError = Null]
    /\ UNCHANGED <<calls, requests, icpt, sel, cm, pr, mv, cv>>

\* onClose of the error alert.
DismissChatError ==
    /\ chat.pc = "mounted"
    /\ Truthy(chat.chatError)
    /\ chat' = [chat EXCEPT !.chatError = Null]
    /\ UNCHANGED <<calls, requests, icpt, sel, cm, pr, mv, cv>>

InitChatView ==
    /\ InitClient
    /\ InitIcpt
    /\ InitSel
    /\ InitCm
    /\ InitCv
    /\ InitPr
    /\ InitMv
    /\ chat \in { [pc |-> "mounted", USE_MOCKS |-> um, messages |-> << >>,
                   isChatLoading |-> FALSE, chatError |-> Null, inputValue |-> << >>,
                   awaited |-> {}, sends |-> << >>, resolved |-> {}, nextSend |-> 1,
                   refused |-> FALSE] : um \in BOOLEAN }

NextChat ==
    \/ \E value \in InputValues : setInputValue(value)
    \/ handleSubmit
    \/ \E index \in DOMAIN suggestedQuestions : SuggestedQuestion(index)
    \/ \E request \in chat.awaited :
            \E response \in ChatResponsesOf(chat.USE_MOCKS, request.updatedMessages) :
                ChatResolved(request, response)
    \/ \E request \in chat.awaited :
            \E err \in ChatFailuresOf(chat.USE_MOCKS, request.updatedMessages) :
                ChatRejected(request, err)
    \/ handleClearChat
    \/ DismissChatError

SpecChat == InitChatView /\ [][NextChat]_vars

\* An awaited call settles: the mock resolves after its delay, the client's
\* request resolves, rejects or runs into its timeout.
ChatSettled ==
    \E request \in chat.awaited :
        \/ \E response \in ChatResponsesOf(chat.USE_MOCKS, request.updatedMessages) :
                ChatResolved(request, response)
        \/ \E err \in ChatFailuresOf(chat.USE_MOCKS, request.updatedMessages) :
                ChatRejected(request, err)

SpecChatLive == SpecChat /\ WF_vars(ChatSettled)

(* ----------------------------- metrics view ---------------------------- *)

\* Epochs of the reports that the model builds besides the mock report.
MaxEpochs == 2

\* array[index] with the index counted from 0: undefined outside the array.
\* The curves hold hundredths.
At(array, index) ==
    IF index + 1 \in DOMAIN array THEN Rat(array[index + 1], 100) ELSE Undefined

\* ToNumber, for the operands of *: undefined becomes NaN.
ToNumber(x) == IF x = Undefined THEN NaN ELSE x

\* Number.prototype.toFixed(4)
toFixed4(x) ==
    IF IsNaN(x) THEN [text |-> "NaN"]
    ELSE [text |-> "fixed", tenThousandths |-> (20000 * x.n + x.d) \div (2 * x.d)]

\* What reading a property of undefined throws.
TypeError == [t |-> "thrown", name |-> "TypeError"]

\* metrics.epochs.map((epoch, index) => ({ ... })) of MetricsCharts.
chartDataFromNext(metrics) ==
    [k \in 1..Len(metrics.epochs) |->
        [epoch |-> Num(metrics.epochs[k]),
         trainAccuracy |-> At(metrics.train_accuracy, k),
         valAccuracy |-> At(metrics.val_accuracy, k),
         trainLoss |-> At(metrics.train_loss, k),
         valLoss |-> At(metrics.val_loss, k)]]

chartDataOf(metrics) ==
    [k \in 1..Len(metrics.epochs) |->
        [epoch |-> Num(metrics.epochs[k]),
         trainAccuracy |-> At(metrics.train_accuracy, k - 1),
         valAccuracy |-> At(metrics.val_accuracy, k - 1),
         trainLoss |-> At(metrics.train_loss, k - 1),
         valLoss |-> At(metrics.val_loss, k - 1)]]

\* getSummaryStats of MetricsView; .toFixed of an absent loss throws.
getSummaryStats(metrics) ==
    IF metrics = Null THEN Null
    ELSE LET lastEpoch == Len(metrics.epochs) - 1
             trainLoss == At(metrics.train_loss, lastEpoch)
             valLoss == At(metrics.val_loss, lastEpoch)
         IN  IF trainLoss = Undefined \/ valLoss = Undefined THEN TypeError
             ELSE [t |-> "object",
                   finalTrainAccuracy |->
                       toFixed1(Times(ToNumber(At(metrics.train_accuracy, lastEpoch)),
                                      Rat(100, 1))),
                   finalValAccuracy |->
                       toFixed1(Times(ToNumber(At(metrics.val_accuracy, lastEpoch)),
                                      Rat(100, 1))),
                   finalTrainLoss |-> toFixed4(trainLoss),
                   finalValLoss |-> toFixed4(valLoss),
                   totalEpochs |-> Len(metrics.epochs)]

\* One render of MetricsView: the summary is computed on every render, the
\* charts are rendered under metrics && !isLoading.
renderMetricsView(metrics, isLoading, error) ==
    LET stats == getSummaryStats(metrics)
        charts == metrics # Null /\ ~isLoading
    IN  IF stats = TypeError
        THEN [crashed |-> TRUE, spinner |-> FALSE, alert |-> Null, stats |-> stats,
              charts |-> FALSE, chartData |-> << >>]
        ELSE [crashed |-> FALSE, spinner |-> isLoading, alert |-> error, stats |-> stats,
              charts |-> charts,
              chartData |-> IF charts THEN chartDataOf(metrics) ELSE << >>]

\* The first n values of a curve that starts at first and moves by step.
curve(n, first, step) == [k \in 1..n |-> first + step * (k - 1)]

\* The reports the server may answer with, the lengths of their curves free.
Reports ==
    { [epochs |-> curve(n, 1, 1),
       train_accuracy |-> curve(a, 60, 10),
       val_accuracy |-> curve(b, 55, 10),
       train_loss |-> curve(c, 80, -10),
       val_loss |-> curve(d, 85, -10),
       confusion_matrix |-> mockMetrics.confusion_matrix] :
         n \in 0..MaxEpochs, a \in 0..MaxEpochs, b \in 0..MaxEpochs,
         c \in 0..MaxEpochs, d \in 0..MaxEpochs }
    \cup {mockMetrics}

MetricsFailures == { onRejected(e) : e \in CallErrors } \cup { NewError("") }

\* The await of fetchMetrics resolves: setMetrics(data), setIsLoading(false).
\* A render that throws takes the view down.
FetchResolved(data) ==
    /\ mv.pc = "mounted"
    /\ mv.awaiting
    /\ data \in (IF mv.USE_MOCKS THEN {mockMetrics} ELSE Reports)
    /\ LET view == renderMetricsView(data, FALSE, mv.error)
       IN  mv' = [mv EXCEPT !.pc = IF view.crashed THEN "crashed" ELSE "mounted",
                            !.metrics = data,
                            !.isLoading = FALSE,
                            !.awaiting = FALSE,
                            !.view = view]
    /\ UNCHANGED <<calls, requests, icpt, sel, cm, pr, chat, cv>>

\* The await of fetchMetrics rejects: setError(...), setIsLoading(false).
FetchRejected(err) ==
    /\ mv.pc = "mounted"
    /\ mv.awaiting
    /\ ~mv.USE_MOCKS
    /\ LET error == Or(Get(err, "message"),
                       Str("Failed to load metrics. Please try again."))
       IN  mv' = [mv EXCEPT !.error = error,
                            !.isLoading = FALSE,
                            !.awaiting = FALSE,
                            !.view = renderMetricsView(mv.metrics, FALSE, error)]
    /\ UNCHANGED <<calls, requests, icpt, sel, cm, pr, chat, cv>>

\* fetchMetrics from the Try Again button of the alert.
fetchMetrics ==
    /\ mv.pc = "mounted"
    /\ Truthy(mv.view.alert)
    /\ mv.fetches < MaxCalls
    /\ mv' = [mv EXCEPT !.isLoading = TRUE,
                        !.error = Null,
                        !.awaiting = TRUE,
                        !.fetches = @ + 1,
                        !.view = renderMetricsView(mv.metrics, TRUE, Null)]
    /\ UNCHANGED <<calls, requests, icpt, sel, cm, pr, chat, cv>>

\* The view after its mount: the effect has called fetchMetrics.
InitMetricsView ==
    /\ InitClient
    /\ InitIcpt
    /\ InitSel
    /\ InitCm
    /\ InitCv
    /\ InitPr
    /\ InitChat
    /\ mv \in { [pc |-> "mounted", USE_MOCKS |-> um, metrics |-> Null,
                 isLoading |-> TRUE, error |-> Null, awaiting |-> TRUE, fetches |-> 1,
                 view |-> renderMetricsView(Null, TRUE, Null)] : um \in BOOLEAN }

NextMetrics ==
    \/ \E data \in Reports : FetchResolved(data)
    \/ \E err \in MetricsFailures : FetchRejected(err)
    \/ fetchMetrics

SpecMetrics == InitMetricsView /\ [][NextMetrics]_vars

\* The awaited call of fetchMetrics settles: the mock resolves after its
\* delay, the client's request resolves, rejects or runs into its timeout.
FetchSettled ==
    \/ \E data \in Reports : FetchResolved(data)
    \/ \E err \in MetricsFailures : FetchRejected(err)

SpecMetricsLive == SpecMetrics /\ WF_vars(FetchSettled)

(* ------------------------ upload form, classify view ------------------- *)

\* const ALLOWED_TYPES, MAX_FILE_SIZE of the upload form.
ALLOWED_TYPES == {"image/jpeg", "image/png", "image/webp", "image/gif"}

MAX_FILE_SIZE == 10 * 1024 * 1024

\* validateFile: the error text, or null for a file that passes.
validateFileBelowMax(file) ==
    IF ~Truthy(file) THEN Str("No file selected")
    ELSE IF file.type \notin ALLOWED_TYPES THEN Str("Invalid file type.")
    ELSE IF file.size >= MAX_FILE_SIZE THEN Str("File too large (Max 10MB).")
    ELSE Null

validateFileTypeOnly(file) ==
    IF ~Truthy(file) THEN Str("No file selected")
    ELSE IF file.type \notin ALLOWED_TYPES THEN Str("Invalid file type.")
    ELSE Null

validateFile(file) ==
    IF ~Truthy(file) THEN Str("No file selected")
    ELSE IF file.type \notin ALLOWED_TYPES THEN Str("Invalid file type.")
    ELSE IF file.size > MAX_FILE_SIZE THEN Str("File too large (Max 10MB).")
    ELSE Null

\* URL.createObjectURL: the form's preview URL of a file, and the n-th URL
\* the view creates.
formUrl(file) == [t |-> "url", by |-> "form", of |-> file]

viewUrl(n) == [t |-> "url", by |-> "view", id |-> n]

\* handleFileSelect of the form; checked notes the file and the verdict.
handleFileSelect(file) ==
    LET validationError == validateFile(file)
    IN  IF Truthy(validationError)
        THEN [cv EXCEPT !.formError = validationError,
                        !.selectedFile = Null,
                        !.formPreviewUrl = Null,
                        !.checked = [file |-> file, validationError |-> validationError]]
        ELSE [cv EXCEPT !.formError = Null,
                        !.selectedFile = file,
                        !.formPreviewUrl = formUrl(file),
                        !.checked = [file |-> file, validationError |-> validationError]]

\* handleInputChange: the dialog opens from the area while no file is
\* selected; file is null when the dialog gives none.
handleInputChange(file) ==
    /\ cv.pc = "mounted"
    /\ cv.selectedFile = Null
    /\ cv' = IF Truthy(file) THEN handleFileSelect(file) ELSE cv
    /\ UNCHANGED <<calls, requests, icpt, sel, cm, pr, mv, chat>>

handleDragOver ==
    /\ cv.pc = "mounted"
    /\ cv' = [cv EXCEPT !.isDragOver = TRUE]
    /\ UNCHANGED <<calls, requests, icpt, sel, cm, pr, mv, chat>>

handleDragLeave ==
    /\ cv.pc = "mounted"
    /\ cv' = [cv EXCEPT !.isDragOver = FALSE]
    /\ UNCHANGED <<calls, requests, icpt, sel, cm, pr, mv, chat>>

handleDrop(file) ==
    /\ cv.pc = "mounted"
    /\ cv' = [(IF Truthy(file) THEN handleFileSelect(file) ELSE cv)
                EXCEPT !.isDragOver = FALSE]
    /\ UNCHANGED <<calls, requests, icpt, sel, cm, pr, mv, chat>>

\* handleClear, from the buttons shown with a selection and disabled while
\* loading.
handleClear ==
    /\ cv.pc = "mounted"
    /\ cv.selectedFile # Null
    /\ ~cv.isLoading
    /\ cv' = [cv EXCEPT !.selectedFile = Null, !.formPreviewUrl = Null, !.formError = Null]
    /\ UNCHANGED <<calls, requests, icpt, sel, cm, pr, mv, chat>>

\* disabled={!selectedFile || isLoading || !!error} of the submit button.
submitDisabledIgnoringLoading(selectedFile, isLoading, error) ==
    ~Truthy(selectedFile) \/ Truthy(error)

submitDisabled(selectedFile, isLoading, error) ==
    ~Truthy(selectedFile) \/ isLoading \/ Truthy(error)

\* err.message || 'Failed to classify image. Please try again.'
classifyErrorOfMessageOnly(err) == Get(err, "message")

classifyErrorOf(err) ==
    Or(Get(err, "message"), Str("Failed to classify image. Please try again."))

\* What the selected function can resolve with for a file, and what it can
\* throw: the real uploadImageAndPredict throws its validation error before
\* any request, the mock checks nothing and throws nothing.
ClassifyResponsesOf(useMocks, imageFile) ==
    IF useMocks THEN { mockPrediction(isReal, confidence) :
                         isReal \in BOOLEAN, confidence \in {75, 95} }
    ELSE IF imageError(imageFile) # "" THEN {}
    ELSE Payloads("uploadImageAndPredict")

ClassifyFailuresOf(useMocks, imageFile) ==
    IF useMocks THEN {}
    ELSE IF imageError(imageFile) # "" THEN { NewError(imageError(imageFile)) }
    ELSE { onRejected(e) : e \in CallErrors } \cup { NewError("") }

\* handleSubmit of ClassifyView up to its await. created counts the URLs
\* made, submitted notes the files it was called with.
classifyHandleSubmit(imageFile) ==
    LET url == viewUrl(cv.created + 1)
    IN  [cv EXCEPT !.error = Null,
                   !.result = Null,
                   !.isLoading = TRUE,
                   !.previewUrl = url,
                   !.created = @ + 1,
                   !.submitted = @ \cup {imageFile},
                   !.awaited = @ \cup {[url |-> url, imageFile |-> imageFile]}]

\* handleSubmit of the form, from its submit button.
ImageUploadFormSubmit ==
    /\ cv.pc = "mounted"
    /\ ~submitDisabled(cv.selectedFile, cv.isLoading, cv.formError)
    /\ IF ~Truthy(cv.selectedFile)
       THEN cv' = [cv EXCEPT !.formError = Str("Please select an image first")]
       ELSE /\ cv.created < MaxCalls
            /\ cv' = classifyHandleSubmit(cv.selectedFile)
    /\ UNCHANGED <<calls, requests, icpt, sel, cm, pr, mv, chat>>

\* The rest of handleSubmit when the awaited call resolves.
ClassifyResolved(request, response) ==
    /\ cv.pc = "mounted"
    /\ request \in cv.awaited
    /\ response \in ClassifyResponsesOf(cv.USE_MOCKS, request.imageFile)
    /\ cv' = [cv EXCEPT !.result = response,
                        !.isLoading = FALSE,
                        !.awaited = @ \ {request}]
    /\ UNCHANGED <<calls, requests, icpt, sel, cm, pr, mv, chat>>

\* The rest of handleSubmit when it rejects: the error is set, the URL of
\* this submit revoked and the preview removed.
ClassifyRejected(request, err) ==
    /\ cv.pc = "mounted"
    /\ request \in cv.awaited
    /\ err \in ClassifyFailuresOf(cv.USE_MOCKS, request.imageFile)
    /\ cv' = [cv EXCEPT !.error = classifyErrorOf(err),
                        !.revoked = @ \cup {request.url},
                        !.previewUrl = Null,
                        !.isLoading = FALSE,
                        !.awaited = @ \ {request}]
    /\ UNCHANGED <<calls, requests, icpt, sel, cm, pr, mv, chat>>

\* handleReset, from the button under a result.
handleReset ==
    /\ cv.pc = "mounted"
    /\ Truthy(cv.result)
    /\ cv' = [cv EXCEPT !.result = Null,
                        !.error = Null,
                        !.revoked = IF Truthy(cv.previewUrl) THEN @ \cup {cv.previewUrl} ELSE @,
                        !.previewUrl = Null]
    /\ UNCHANGED <<calls, requests, icpt, sel, cm, pr, mv, chat>>

\* onClose of the error alert of the view.
DismissClassifyError ==
    /\ cv.pc = "mounted"
    /\ Truthy(cv.error)
    /\ cv' = [cv EXCEPT !.error = Null]
    /\ UNCHANGED <<calls, requests, icpt, sel, cm, pr, mv, chat>>

\* The files a user may pick or drop; null when the event carries none.
PickedFiles == ImageFiles

InitClassifyView ==
    /\ InitClient
    /\ InitIcpt
    /\ InitSel
    /\ InitCm
    /\ InitPr
    /\ InitMv
    /\ InitChat
    /\ cv \in { [pc |-> "mounted", USE_MOCKS |-> um,
                 selectedFile |-> Null, formPreviewUrl |-> Null, isDragOver |-> FALSE,
                 formError |-> Null,
                 isLoading |-> FALSE, result |-> Null, previewUrl |-> Null, error |-> Null,
                 awaited |-> {}, created |-> 0, revoked |-> {}, submitted |-> {},
                 checked |-> [file |-> Null, validationError |-> Null]] :
                    um \in BOOLEAN }

NextClassify ==
    \/ \E file \in PickedFiles : handleInputChange(file)
    \/ handleDragOver
    \/ handleDragLeave
    \/ \E file \in PickedFiles : handleDrop(file)
    \/ handleClear
    \/ ImageUploadFormSubmit
    \/ \E request \in cv.awaited :
            \E response \in ClassifyResponsesOf(cv.USE_MOCKS, request.imageFile) :
                ClassifyResolved(request, response)
    \/ \E request \in cv.awaited :
            \E err \in ClassifyFailuresOf(cv.USE_MOCKS, request.imageFile) :
                ClassifyRejected(request, err)
    \/ handleReset
    \/ DismissClassifyError

SpecClassify == InitClassifyView /\ [][NextClassify]_vars

\* The awaited call settles: the mock resolves after its delay, the
\* client's request resolves, rejects or runs into its timeout.
ClassifySettled ==
    \E request \in cv.awaited :
        \/ \E response \in ClassifyResponsesOf(cv.USE_MOCKS, request.imageFile) :
                ClassifyResolved(request, response)
        \/ \E err \in ClassifyFailuresOf(cv.USE_MOCKS, request.imageFile) :
                ClassifyRejected(request, err)

SpecClassifyLive == SpecClassify /\ WF_vars(ClassifySettled)

(* ------------------------------- claims -------------------------------- *)

\* C1: uploadImageAndPredict rejects, without any request, a missing file, a
\* file whose type is not image/jpeg, image/png, image/webp or image/gif, and
\* a file larger than 10485760 bytes; a file of an allowed type of exactly
\* 10485760 bytes is dispatched as one POST to /api/predict.
C1_ClassifyValidation ==
    \A i \in 1..Len(calls) :
        calls[i].op = "uploadImageAndPredict" =>
            LET file == calls[i].arg
                mine == {k \in 1..Len(requests) : requests[k].call = i}
                bad == IF file.t # "file" THEN TRUE
                       ELSE \/ file.type \notin {"image/jpeg", "image/png", "image/webp", "image/gif"}
                            \/ file.size > 10485760
            IN  IF bad
                THEN /\ calls[i].pc = "rejected"
                     /\ calls[i].result.f.message.v # ""
                     /\ mine = {}
                ELSE /\ Cardinality(mine) = 1
                     /\ \A k \in mine : requests[k].method = "POST" /\ requests[k].url = "/api/predict"

\* A 10 MiB file went out and a file one byte larger was refused.
C1_Witness ==
    /\ Len(calls) = 2
    /\ calls[1].arg = File("image/webp", 10485760)
    /\ calls[1].pc = "awaiting"
    /\ Len(requests) = 1
    /\ calls[2].arg = File("image/webp", 10485761)
    /\ calls[2].pc = "rejected"

\* C2: summarizeText rejects a text that is empty or not a string, and
\* sendChatMessage rejects a value that is not a list, an empty list and a
\* list with a message whose role or content is missing or empty; none of
\* these calls issues a request.
C2_TextAndChatValidation ==
    \A i \in 1..Len(calls) :
        LET arg == calls[i].arg
            mine == {k \in 1..Len(requests) : requests[k].call = i}
            lacks(m, name) == name \notin DOMAIN m.f \/ m.f[name] = Str("")
            bad == CASE calls[i].op = "summarizeText" ->
                            IF arg.t # "string" THEN TRUE ELSE arg.v = ""
                     [] calls[i].op = "sendChatMessage" ->
                            IF arg.t # "array" THEN TRUE
                            ELSE \/ Len(arg.items) = 0
                                 \/ \E k \in 1..Len(arg.items) :
                                        lacks(arg.items[k], "role") \/ lacks(arg.items[k], "content")
                     [] OTHER -> FALSE
        IN  bad => /\ calls[i].pc = "rejected"
                   /\ calls[i].result.f.message.v # ""
                   /\ mine = {}

\* A number given as text and a message without content were both refused.
C2_Witness ==
    /\ Len(calls) = 2
    /\ calls[1].op = "summarizeText" /\ calls[1].arg = Num(42) /\ calls[1].pc = "rejected"
    /\ calls[2].op = "sendChatMessage"
    /\ calls[2].arg = Arr(<< Obj([role |-> Str("user"), content |-> Str("hi")]),
                             Obj([role |-> Str("user")]) >>)
    /\ calls[2].pc = "rejected"
    /\ requests = << >>

\* C3: the rejected handler's error has as message the first non-empty of
\* response.data.error, response.data.message, the transport error's message
\* and the fallback text, so never an empty one; its status is the response's
\* status when there is a response and 500 when there is none.
C3_ErrorNormalization ==
    icpt.pc = "rejected" =>
        LET err == icpt.error.f
            hasResponse == "response" \in DOMAIN err
            body == IF hasResponse THEN err.response.f.data ELSE Undefined
            field(name) == IF body.t = "object" /\ name \in DOMAIN body.f
                           THEN body.f[name].v ELSE ""
            candidates == << field("error"), field("message"),
                             IF "message" \in DOMAIN err THEN err.message.v ELSE "",
                             "An unexpected error occurred" >>
            first == CHOOSE k \in 1..4 :
                        candidates[k] # "" /\ \A j \in 1..(k - 1) : candidates[j] = ""
            out == icpt.standardError.f
        IN  /\ out.message = Str(candidates[first])
            /\ out.message.v # ""
            /\ "status" \in DOMAIN out
            /\ out.status = IF hasResponse THEN err.response.f.status ELSE Num(500)

\* A failure without a response and without a message of its own came out
\* with the fallback text and status 500.
C3_Witness ==
    /\ icpt.pc = "rejected"
    /\ icpt.error = Obj([message |-> Str("")])
    /\ icpt.standardError.f.status = Num(500)
    /\ icpt.standardError.f.message = Str("An unexpected error occurred")

\* C4 as stated: every failed call, a validation failure included, reaches
\* the caller with a message and an integer status.
C4_EveryFailureHasStatus ==
    \A i \in 1..Len(calls) :
        calls[i].pc = "rejected" =>
            /\ calls[i].result.f.message.v # ""
            /\ "status" \in DOMAIN calls[i].result.f
            /\ calls[i].result.f.status.t = "number"

\* C4 amended: every failed call reaches the caller with a non-empty message;
\* it carries an integer status exactly when its request was dispatched (the
\* failure came through the response interceptor), and a validation failure
\* carries no status.
C4_StatusOnlyAfterDispatch ==
    \A i \in 1..Len(calls) :
        calls[i].pc = "rejected" =>
            /\ calls[i].result.f.message.v # ""
            /\ calls[i].dispatched =>
                  /\ "status" \in DOMAIN calls[i].result.f
                  /\ calls[i].result.f.status.t = "number"
            /\ ~calls[i].dispatched => "status" \notin DOMAIN calls[i].result.f

\* One call failed in validation and another failed at the transport.
C4_Witness ==
    /\ Len(calls) = 2
    /\ calls[1].pc = "rejected" /\ ~calls[1].dispatched
    /\ calls[2].pc = "rejected" /\ calls[2].dispatched
    /\ calls[2].result.f.status = Num(500)

\* C5 as stated: a 2xx response whose payload is malformed surfaces to the
\* caller as an error, not as a result.
C5_MalformedPayloadRejected ==
    \A i \in 1..Len(calls) :
        LET raw == calls[i].raw
            has(name) == raw.f.data.t = "object" /\ name \in DOMAIN raw.f.data.f
            wellFormed ==
                CASE calls[i].op = "uploadImageAndPredict" -> has("prediction") /\ has("confidence")
                  [] calls[i].op = "summarizeText" -> has("summary")
                  [] calls[i].op = "sendChatMessage" -> has("reply")
                  [] calls[i].op = "getMetrics" -> has("epochs") /\ has("confusion_matrix")
                  [] OTHER -> has("status")
        IN  (raw.t = "object" /\ "data" \in DOMAIN raw.f /\ ~wellFormed)
                => calls[i].pc = "rejected"

\* C5 amended: a 2xx response resolves the call with its payload unchanged,
\* well formed or not; a dispatched call is rejected only for a transport or
\* HTTP failure.
C5_PayloadReturnedUnchanged ==
    \A i \in 1..Len(calls) :
        LET raw == calls[i].raw
            is2xx == raw.t = "object" /\ "data" \in DOMAIN raw.f
        IN  /\ is2xx => calls[i].pc = "resolved" /\ calls[i].result = raw.f.data
            /\ calls[i].pc = "resolved" => is2xx
            /\ (calls[i].pc = "rejected" /\ calls[i].dispatched) => ~is2xx

\* A predict response without confidence was returned as the result.
C5_Witness ==
    \E i \in 1..Len(calls) :
        /\ calls[i].op = "uploadImageAndPredict"
        /\ calls[i].pc = "resolved"
        /\ calls[i].result = Obj([prediction |-> Str("Fake")])

\* C6: a call whose input passes validation has issued exactly one request
\* and a call whose input fails has issued none, also after the request has
\* failed (no retry) and when an equal call was made before (no reuse).
C6_OneRequestPerCall ==
    /\ \A i \in 1..Len(calls) :
          LET arg == calls[i].arg
              lacks(m, name) == name \notin DOMAIN m.f \/ m.f[name] = Str("")
              valid ==
                CASE calls[i].op = "uploadImageAndPredict" ->
                        IF arg.t # "file" THEN FALSE
                        ELSE /\ arg.type \in {"image/jpeg", "image/png", "image/webp", "image/gif"}
                             /\ arg.size <= 10485760
                  [] calls[i].op = "summarizeText" ->
                        IF arg.t # "string" THEN FALSE ELSE arg.v # ""
                  [] calls[i].op = "sendChatMessage" ->
                        IF arg.t # "array" THEN FALSE
                        ELSE /\ Len(arg.items) > 0
                             /\ \A k \in 1..Len(arg.items) :
                                    ~lacks(arg.items[k], "role") /\ ~lacks(arg.items[k], "content")
                  [] OTHER -> TRUE
          IN  Cardinality({k \in 1..Len(requests) : requests[k].call = i})
                  = IF valid THEN 1 ELSE 0
    /\ \A k \in 1..Len(requests) : requests[k].call \in 1..Len(calls)

\* Two equal calls, the first of which failed, made two requests.
C6_Witness ==
    /\ Len(calls) = 2
    /\ calls[1].op = "getMetrics" /\ calls[1].pc = "rejected"
    /\ calls[2].op = "getMetrics" /\ calls[2].pc = "resolved"
    /\ Len(requests) = 2
    /\ requests[1].call = 1 /\ requests[2].call = 2

\* C7 as stated: whichever of the five operations a caller selects through
\* USE_MOCKS, the mocks table gives it a function.
C7_EveryOperationHasMock ==
    (sel.pc \notin {"idle", "start"} /\ sel.USE_MOCKS) => sel.apiFunction.t = "function"

\* C7 amended: uploadImageAndPredict, summarizeText, sendChatMessage and
\* getMetrics have a simulated counterpart that USE_MOCKS selects in their
\* place; checkHealth has none, and selecting it gives undefined.
C7_AllButHealthHaveMock ==
    sel.pc \notin {"idle", "start"} =>
        LET mockOf == [uploadImageAndPredict |-> "mockUploadImageAndPredict",
                       summarizeText |-> "mockSummarizeText",
                       sendChatMessage |-> "mockSendChatMessage",
                       getMetrics |-> "mockGetMetrics"]
        IN  IF ~sel.USE_MOCKS THEN sel.apiFunction = Fn(sel.op)
            ELSE IF sel.op = "checkHealth" THEN sel.apiFunction = Undefined
            ELSE sel.apiFunction = Fn(mockOf[sel.op]) /\ sel.pc # "threw"

\* The metrics view's selection ran the simulated getMetrics.
C7_Witness ==
    /\ sel.op = "getMetrics"
    /\ sel.USE_MOCKS
    /\ sel.pc = "resolved"
    /\ sel.result.confusion_matrix = << <<4250, 350>>, <<420, 4980>> >>

C9_StatisticsMatchReference ==
    LET tn == cm.matrix[1][1]
        fp == cm.matrix[1][2]
        fn == cm.matrix[2][1]
        tp == cm.matrix[2][2]
        abs(x) == IF x < 0 THEN -x ELSE x
        \* shown is a nearest tenth of num/den
        rounds(shown, num, den) ==
            shown.text = "fixed" /\ 2 * abs(10 * num - shown.tenths * den) <= den
    IN  (cm.pc = "rendered" /\ tn + fp + fn + tp > 0 /\ tp + fp > 0 /\ tp + fn > 0) =>
            /\ rounds(cm.shown.accuracy, 100 * (tn + tp), tn + fp + fn + tp)
            /\ rounds(cm.shown.precision, 100 * tp, tp + fp)
            /\ rounds(cm.shown.recall, 100 * tp, tp + fn)
            /\ tp > 0 => rounds(cm.shown.f1Score, 200 * tp, 2 * tp + fp + fn)
            /\ cm.matrix = << <<4250, 350>>, <<420, 4980>> >> =>
                  /\ cm.shown.accuracy.tenths = 923
                  /\ cm.shown.precision.tenths = 934
                  /\ cm.shown.recall.tenths = 922
                  /\ cm.shown.f1Score.tenths = 928

C11_UndefinedShownAsNA ==
    LET fp == cm.matrix[1][2]
        fn == cm.matrix[2][1]
        tp == cm.matrix[2][2]
    IN  cm.pc = "rendered" =>
            /\ tp + fp = 0 => cm.shown.precision.text = "N/A"
            /\ tp + fn = 0 => cm.shown.recall.text = "N/A"
            /\ cm.shown.precision.text \in {"fixed", "N/A"}
            /\ cm.shown.recall.text \in {"fixed", "N/A"}

\* C12 as stated: f1 is displayed as "N/A" exactly when precision + recall
\* = 0 (with both denominators positive that is tp = 0) or tp+fp = 0 or
\* tp+fn = 0, and as a number in every other case.
C12_F1NotAvailableExactly ==
    LET fp == cm.matrix[1][2]
        fn == cm.matrix[2][1]
        tp == cm.matrix[2][2]
    IN  cm.pc = "rendered" =>
            /\ cm.shown.f1Score.text \in {"fixed", "N/A"}
            /\ cm.shown.f1Score.text = "N/A" <=> (tp = 0 \/ tp + fp = 0 \/ tp + fn = 0)

\* C13 as stated: for the matrix of zeros the total of 0 is guarded, so that
\* no statistic, the accuracy in particular, is computed or displayed as NaN.
C13_ZeroTotalGuarded ==
    (cm.pc = "rendered" /\ cm.matrix = << <<0, 0>>, <<0, 0>> >>) =>
        /\ cm.shown.accuracy.text # "NaN"
        /\ cm.shown.precision.text # "NaN"
        /\ cm.shown.recall.text # "NaN"
        /\ cm.shown.f1Score.text # "NaN"

\* C14 as stated: nothing is rounded before it is displayed, so with defined
\* and not both zero precision and recall (tp > 0) the displayed f1 is a
\* one-decimal rounding of 2*P*R/(P+R) on the unrounded P = 100*tp/(tp+fp)
\* and R = 100*tp/(tp+fn), that is of 200*tp/(2*tp+fp+fn).
C14_F1FromUnroundedValues ==
    LET fp == cm.matrix[1][2]
        fn == cm.matrix[2][1]
        tp == cm.matrix[2][2]
        f1 == cm.shown.f1Score
        den == 2 * tp + fp + fn
        \* tenths of 200*tp/den, rounded down
        below == (2000 * tp) \div den
    IN  (cm.pc = "rendered" /\ tp > 0) =>
            /\ f1.text = "fixed"
            /\ f1.tenths \in {below, below + 1}
            /\ 2 * (2000 * tp - f1.tenths * den) <= den
            /\ 2 * (f1.tenths * den - 2000 * tp) <= den

\* C18: whether the confidence arrived as a fraction in [0,1] or as a
\* percentage in [0,100], the percentage computed for display lies in [0,100].
C18_ConfidencePercentInRange ==
    pr.pc = "rendered" =>
        LET c == pr.shown.confidencePercent
        IN  /\ ~c.nan
            /\ c.n >= 0
            /\ c.n <= 100 * c.d
            /\ pr.shown.confidenceDisplay.text = "fixed"
            /\ pr.shown.confidenceDisplay.tenths \in 0..1000

\* A fraction of 0.93 was rendered as 93.0 percent.
C18_Witness ==
    /\ pr.pc = "rendered"
    /\ pr.unit = "fraction"
    /\ pr.confidence = Rat(93, 100)
    /\ pr.shown.confidenceDisplay = [text |-> "fixed", tenths |-> 930]

C19_RepliesInOrder ==
    [][ (chat.pc = "mounted" /\ chat'.pc = "mounted") =>
          LET messages == chat'.messages
              sends == chat'.sends
          IN  /\ \A k \in DOMAIN messages :
                    messages[k].f.role = Str("assistant") =>
                        /\ sends[k] \in chat'.resolved
                        /\ k > 1
                        /\ messages[k - 1].f.role = Str("user")
                        /\ sends[k - 1] = sends[k]
              /\ \A k, m \in DOMAIN messages :
                    (k < m /\ messages[k].f.role = Str("user")
                           /\ messages[m].f.role = Str("user")) => sends[k] < sends[m]
              /\ \/ messages = << >>
                 \/ /\ Len(chat.messages) <= Len(messages)
                    /\ SubSeq(messages, 1, Len(chat.messages)) = chat.messages ]_vars

\* Two sends were answered in turn although a submit was attempted while a
\* reply was awaited.
C19_Witness ==
    /\ chat.pc = "mounted"
    /\ chat.refused
    /\ Len(chat.messages) = 4
    /\ chat.sends = <<1, 1, 2, 2>>
    /\ chat.messages[2].f.role = Str("assistant")
    /\ chat.messages[4].f.role = Str("assistant")

\* C15: for a report whose five sequences all have length N the charts get
\* exactly N records in the order of epochs, record i holding epochs[i] with
\* train_accuracy[i], val_accuracy[i], train_loss[i] and val_loss[i]; for
\* the 10-epoch report the epochs are 1..10 and every record has its four
\* metric values.
C15_EpochSeriesZipsCurves ==
    LET report == mv.metrics
        N == Len(report.epochs)
        series == mv.view.chartData
    IN  (/\ mv.pc = "mounted"
         /\ mv.view.charts
         /\ Len(report.train_accuracy) = N
         /\ Len(report.val_accuracy) = N
         /\ Len(report.train_loss) = N
         /\ Len(report.val_loss) = N) =>
            /\ Len(series) = N
            /\ \A i \in 1..N :
                  /\ series[i].epoch = Num(report.epochs[i])
                  /\ series[i].trainAccuracy = Rat(report.train_accuracy[i], 100)
                  /\ series[i].valAccuracy = Rat(report.val_accuracy[i], 100)
                  /\ series[i].trainLoss = Rat(report.train_loss[i], 100)
                  /\ series[i].valLoss = Rat(report.val_loss[i], 100)
            /\ report = mockMetrics =>
                  /\ N = 10
                  /\ \A i \in 1..10 : series[i].epoch = Num(i)

\* The charts were rendered from the 10-epoch report; the last record holds
\* epoch 10 with 0.95, 0.89, 0.16 and 0.34.
C15_Witness ==
    /\ mv.pc = "mounted"
    /\ mv.view.charts
    /\ mv.metrics = mockMetrics
    /\ Len(mv.view.chartData) = 10
    /\ mv.view.chartData[10] = [epoch |-> Num(10), trainAccuracy |-> Rat(95, 100),
                                valAccuracy |-> Rat(89, 100), trainLoss |-> Rat(16, 100),
                                valLoss |-> Rat(34, 100)]

\* C16 as stated: no record with a missing metric value is ever handed to
\* the charts, whatever the lengths of the sequences of the report.
C16_NoRecordWithMissingValue ==
    (mv.pc = "mounted" /\ mv.view.charts) =>
        \A i \in DOMAIN mv.view.chartData :
            /\ mv.view.chartData[i].trainAccuracy # Undefined
            /\ mv.view.chartData[i].valAccuracy # Undefined
            /\ mv.view.chartData[i].trainLoss # Undefined
            /\ mv.view.chartData[i].valLoss # Undefined

\* C17 as stated: for every loaded report whose sequences share the length
\* of epochs the summary holds the four values found at index
\* epochs.length - 1 and the number of epochs; with no report it is null.
C17_SummaryOfFinalEpoch ==
    LET report == mv.metrics
        N == Len(report.epochs)
        stats == mv.view.stats
    IN  /\ (mv.pc # "unmounted" /\ report = Null) => stats = Null
        /\ (/\ mv.pc # "unmounted"
            /\ report # Null
            /\ Len(report.train_accuracy) = N
            /\ Len(report.val_accuracy) = N
            /\ Len(report.train_loss) = N
            /\ Len(report.val_loss) = N) =>
               /\ stats.t = "object"
               /\ stats.totalEpochs = N
               /\ stats.finalTrainAccuracy = [text |-> "fixed", tenths |-> 10 * report.train_accuracy[N]]
               /\ stats.finalValAccuracy = [text |-> "fixed", tenths |-> 10 * report.val_accuracy[N]]
               /\ stats.finalTrainLoss = [text |-> "fixed", tenThousandths |-> 100 * report.train_loss[N]]
               /\ stats.finalValLoss = [text |-> "fixed", tenThousandths |-> 100 * report.val_loss[N]]

\* C21: at most one chat request is in flight, isChatLoading is true exactly
\* while it is, no step taken while isChatLoading is true starts a request,
\* and the user message of every request is non-empty after trimming.
C21_OneRequestInFlight ==
    [][ (chat.pc = "mounted" /\ chat'.pc = "mounted") =>
          /\ Cardinality(chat'.awaited) <= 1
          /\ chat'.isChatLoading <=> chat'.awaited # {}
          /\ chat.isChatLoading => chat'.awaited \subseteq chat.awaited
          /\ \A request \in chat'.awaited :
                LET sent == request.updatedMessages[Len(request.updatedMessages)].f.content.chars
                IN  /\ sent # << >>
                    /\ sent[1] \notin {" ", "\t", "\n"}
                    /\ sent[Len(sent)] \notin {" ", "\t", "\n"} ]_vars

\* A submit of typed text was ignored while the one request was in flight.
C21_Witness ==
    /\ chat.pc = "mounted"
    /\ chat.refused
    /\ chat.isChatLoading
    /\ Cardinality(chat.awaited) = 1
    /\ trim(chat.inputValue) # << >>

\* C22: a send that is loading leads to isChatLoading false; the step in
\* which a request fails sets chatError to the error's message or to the
\* fallback text, leaves the conversation as it was (the user message stays,
\* no assistant message is appended) and ends the loading.
C22_SendSettles ==
    /\ (chat.pc = "mounted" /\ chat.isChatLoading) ~> (~chat.isChatLoading)
    /\ [][ (/\ chat.pc = "mounted"
            /\ chat'.awaited # chat.awaited
            /\ chat'.awaited \subseteq chat.awaited
            /\ chat'.resolved = chat.resolved) =>
               /\ ~chat'.isChatLoading
               /\ chat'.messages = chat.messages
               /\ chat'.chatError.t = "string"
               /\ Truthy(chat'.chatError)
               /\ chat'.chatError \in
                    {Str("Unsupported image"), Str("Network Error"),
                     Str("Each message must have a role and content"),
                     Str("Failed to get response. Please try again."),
                     Str("Cannot read properties of null")} ]_vars

\* A request failed with an error without message: the fallback text is
\* shown, the loading has ended and the conversation ends with the user
\* message.
C22_Witness ==
    /\ chat.pc = "mounted"
    /\ ~chat.isChatLoading
    /\ chat.awaited = {}
    /\ chat.chatError = Str("Failed to get response. Please try again.")
    /\ Len(chat.messages) = 1
    /\ chat.messages[1].f.role = Str("user")

\* C23 as stated: once the conversation is empty it stays empty until the
\* user sends a message, also when a request that was pending at Clear Chat
\* resolves afterwards.
C23_ClearedStaysEmpty ==
    [][ (chat.pc = "mounted" /\ chat.messages = << >> /\ chat'.messages # << >>) =>
            chat'.nextSend > chat.nextSend ]_vars

\* C24 as stated: every message of the conversation has a role in
\* {user, assistant} and a content that is a non-empty string.
C24_MessagesWellFormed ==
    chat.pc = "mounted" =>
        \A k \in DOMAIN chat.messages :
            /\ chat.messages[k].f.role \in {Str("user"), Str("assistant")}
            /\ chat.messages[k].f.content.t = "string"
            /\ Truthy(chat.messages[k].f.content)

\* C30 as stated: the low-confidence note is shown only under the label
\* 'Low confidence' and the high-confidence note only under the label
\* 'High confidence'.
C30_LabelAndNoteAgree ==
    pr.pc = "rendered" =>
        /\ "low" \in pr.shown.note => pr.shown.confidenceLevel = "low"
        /\ "high" \in pr.shown.note => pr.shown.confidenceLevel = "high"

\* C29 as stated: a failed fetch ends with isLoading false, the error shown
\* and Try Again available; Try Again clears the error, sets isLoading and
\* issues a new fetch; when that fetch succeeds the metrics are displayed
\* with no error; every fetch leads to isLoading false.
C29_RetryShowsMetrics ==
    /\ [][ /\ (mv.pc = "mounted" /\ mv.awaiting /\ ~mv'.awaiting /\ mv'.error # Null) =>
                /\ mv'.pc = "mounted"
                /\ ~mv'.isLoading
                /\ mv'.view.alert = mv'.error
                /\ Truthy(mv'.view.alert)
           /\ (mv.pc = "mounted" /\ ~mv.awaiting /\ mv'.awaiting) =>
                /\ mv'.error = Null
                /\ mv'.isLoading
                /\ mv'.view.spinner
                /\ mv'.fetches = mv.fetches + 1
           /\ (/\ mv.pc = "mounted" /\ mv.awaiting /\ ~mv'.awaiting
               /\ mv.fetches > 1 /\ mv'.metrics # Null) =>
                /\ mv'.pc = "mounted"
                /\ mv'.view.charts
                /\ mv'.view.stats.t = "object"
                /\ mv'.view.alert = Null ]_vars
    /\ (mv.pc = "mounted" /\ mv.isLoading) ~> (~mv.isLoading)

\* C25: after every step of the upload form the selected file is absent or
\* has an allowed type and at most 10 MiB, it has a preview exactly when it
\* is present, every file handed to onSubmit was such a file, and the step
\* that checks a file of another type or size leaves no selection, no
\* preview and an error.
C25_OnlyValidatedFiles ==
    [][ (cv.pc = "mounted" /\ cv'.pc = "mounted") =>
          LET passes(file) ==
                  /\ file.t = "file"
                  /\ file.type \in {"image/jpeg", "image/png", "image/webp", "image/gif"}
                  /\ file.size <= 10485760
          IN  /\ cv'.selectedFile = Null \/ passes(cv'.selectedFile)
              /\ cv'.selectedFile = Null <=> cv'.formPreviewUrl = Null
              /\ \A file \in cv'.submitted : passes(file)
              /\ (cv'.checked # cv.checked /\ ~passes(cv'.checked.file)) =>
                    /\ cv'.selectedFile = Null
                    /\ cv'.formPreviewUrl = Null
                    /\ Truthy(cv'.formError) ]_vars

\* A PNG of exactly 10 MiB was submitted, then a text file was dropped: the
\* selection is gone and the type error is shown.
C25_Witness ==
    /\ cv.pc = "mounted"
    /\ cv.submitted = {File("image/png", 10485760)}
    /\ cv.checked.file = File("text/plain", 10485760)
    /\ cv.selectedFile = Null
    /\ cv.formPreviewUrl = Null
    /\ cv.formError = Str("Invalid file type.")

\* C26: the form accepts a file exactly when the classify validation of the
\* client passes it, and every file the view hands to the real
\* uploadImageAndPredict passes that validation, so the request is
\* dispatched.
C26_FormAndClientAgree ==
    cv.pc = "mounted" =>
        /\ cv.checked.file # Null =>
              (cv.checked.validationError = Null <=> imageError(cv.checked.file) = "")
        /\ \A request \in cv.awaited : imageError(request.imageFile) = ""

\* A GIF of 10 MiB + 1 byte was refused by the form, as the client refuses it.
C26_Witness ==
    /\ cv.pc = "mounted"
    /\ cv.checked.file = File("image/gif", 10485761)
    /\ cv.checked.validationError = Str("File too large (Max 10MB).")
    /\ imageError(cv.checked.file) = "File too large. Maximum size is 10MB."

\* C27: a submit leaves result and error null and isLoading true; the
\* outcome of the request ends the loading with either a result and no
\* error, or an error, no result and no preview; result and error are never
\* both non-null; a loading view leads to one that is not loading.
C27_ResultOrError ==
    /\ [][ (cv.pc = "mounted" /\ cv'.pc = "mounted") =>
             /\ cv'.created > cv.created =>
                   (cv'.result = Null /\ cv'.error = Null /\ cv'.isLoading)
             /\ (cv'.awaited # cv.awaited /\ cv'.awaited \subseteq cv.awaited) =>
                   /\ ~cv'.isLoading
                   /\ \/ (Truthy(cv'.result) /\ cv'.error = Null
                            /\ cv'.previewUrl = cv.previewUrl)
                      \/ (cv'.result = Null /\ Truthy(cv'.error)
                            /\ cv'.previewUrl = Null)
             /\ ~(cv'.result # Null /\ cv'.error # Null) ]_vars
    /\ (cv.pc = "mounted" /\ cv.isLoading) ~> (~cv.isLoading)

\* A second submit, after a first that gave a result, failed: the error is
\* shown with no result and no preview, and the loading has ended.
C27_Witness ==
    /\ cv.pc = "mounted"
    /\ cv.created = 2
    /\ cv.awaited = {}
    /\ ~cv.isLoading
    /\ cv.result = Null
    /\ cv.error = Str("Network Error")
    /\ cv.previewUrl = Null

\* C28 as stated: whenever previewUrl is replaced or set to null, the URL it
\* held has been revoked.
C28_PreviewUrlRevoked ==
    [][ (cv.pc = "mounted" /\ cv.previewUrl # Null /\ cv'.previewUrl # cv.previewUrl) =>
            cv.previewUrl \in cv'.revoked ]_vars

====
